---- MODULE Spec2Model ----
(***************************************************************************)
(* Model of coin_api_mcp/server.py: the MCP tool server that proxies six   *)
(* tools to three upstream REST services.                                  *)
(*                                                                         *)
(* Strings that the code only compares or concatenates are TLA+ strings.   *)
(* Strings that the code transforms character by character (argument keys  *)
(* and values on their way into a URL) are sequences of one-character      *)
(* strings.  A URL is such a sequence whose first element is the literal   *)
(* scheme://host/path of the f-string.                                     *)
(***************************************************************************)
EXTENDS Integers, Sequences, FiniteSets, TLC

VARIABLES API_KEY, DEFI_API_KEY, pcMain, call, listed, open_clients

vars == <<API_KEY, DEFI_API_KEY, pcMain, call, listed, open_clients>>

(***************************************************************************)
(* Bounds.                                                                 *)
(***************************************************************************)
\* number of calls the transport may have in flight at once
MaxCalls == 2
\* number of keys in one arguments mapping
MaxArgs == 2

Calls == 1..MaxCalls

\* identities of httpx.AsyncClient objects: an activation of the handler
\* creates at most one, so the client of slot c is given the identity c
ClientIds == Calls

(***************************************************************************)
(* Module-level constants and the tool catalogue.                          *)
(***************************************************************************)
API_BASE == "pro-api.coinmarketcap.com"

None == "None"

\* the names of the types.Tool entries handle_list_tools returns, in order
ListedToolNames ==
    << "listing-coins", "get-coin-info", "get-coin-quotes", "get-protocols",
       "listing-protocols", "get-protocol-tvl", "get-apr" >>

\* a chain that also takes the listed "get-protocols" into a branch
DispatchedNamesWithGetProtocols ==
    { "listing-coins", "get-coin-info", "get-coin-quotes", "get-protocols",
      "listing-protocols", "get-protocol-tvl", "get-apr" }

\* the names the if/elif chain of handle_call_tool has a branch for
DispatchedNames ==
    { "listing-coins", "get-coin-info", "get-coin-quotes",
      "listing-protocols", "get-protocol-tvl", "get-apr" }

\* condi_keys of each branch (listing-protocols reads no argument)
condi_keys(name) ==
    CASE name = "listing-coins" ->
           << "start", "limit", "price_min", "price_max", "market_cap_min",
              "market_cap_max", "volume_24h_min", "volume_24h_max",
              "circulating_supply_min", "circulating_supply_max",
              "percent_change_24h_min", "percent_change_24h_max", "convert",
              "convert_id", "sort", "sort_dir", "cryptocurrency_type", "tag",
              "aux" >>
      [] name = "get-coin-info" ->
           << "id", "slug", "symbol", "address", "skip_invalid", "aux" >>
      [] name = "get-coin-quotes" ->
           << "id", "slug", "symbol", "convert", "convert_id", "aux",
              "skip_invalid" >>
      [] name = "get-protocol-tvl" -> << "protocol" >>
      [] name = "get-apr" -> << "liquidStakingId" >>
      [] OTHER -> << >>

Range(s) == { s[i] : i \in DOMAIN s }

(***************************************************************************)
(* Python dict: a sequence of <<key, value>> pairs in insertion order,     *)
(* keys pairwise distinct.                                                 *)
(***************************************************************************)
HasKey(d, k) == \E i \in DOMAIN d : d[i][1] = k

\* d[k]; the caller checks HasKey first (a missing key is a KeyError)
DictGet(d, k) == d[CHOOSE i \in DOMAIN d : d[i][1] = k][2]

\* d[k] = v: an existing key keeps its position, a new key goes last
DictSet(d, k, v) ==
    IF HasKey(d, k)
    THEN [i \in DOMAIN d |-> IF d[i][1] = k THEN <<k, v>> ELSE d[i]]
    ELSE Append(d, <<k, v>>)

(***************************************************************************)
(* Characters.  str(key) for the keys the modelled callers send.           *)
(***************************************************************************)
Chars(k) ==
    CASE k = "aux" -> << "a", "u", "x" >>
      [] k = "symbol" -> << "s", "y", "m", "b", "o", "l" >>
      [] k = "convert" -> << "c", "o", "n", "v", "e", "r", "t" >>
      [] k = "protocol" -> << "p", "r", "o", "t", "o", "c", "o", "l" >>
      [] k = "liquidStakingId" ->
           << "l", "i", "q", "u", "i", "d", "S", "t", "a", "k", "i", "n", "g",
              "I", "d" >>
      [] k = "bogus" -> << "b", "o", "g", "u", "s" >>

\* urllib.parse._ALWAYS_SAFE: characters quote() never escapes
ALWAYS_SAFE ==
    { "A", "B", "C", "D", "E", "F", "G", "H", "I", "J", "K", "L", "M", "N",
      "O", "P", "Q", "R", "S", "T", "U", "V", "W", "X", "Y", "Z",
      "a", "b", "c", "d", "e", "f", "g", "h", "i", "j", "k", "l", "m", "n",
      "o", "p", "q", "r", "s", "t", "u", "v", "w", "x", "y", "z",
      "0", "1", "2", "3", "4", "5", "6", "7", "8", "9", "_", ".", "-", "~" }

\* '%{:02X}'.format(ord(ch)) for the ASCII characters outside ALWAYS_SAFE
\* that the modelled values contain
PercentHex(ch) ==
    CASE ch = " " -> << "%", "2", "0" >>
      [] ch = "#" -> << "%", "2", "3" >>
      [] ch = "%" -> << "%", "2", "5" >>
      [] ch = "&" -> << "%", "2", "6" >>
      [] ch = "+" -> << "%", "2", "B" >>
      [] ch = "/" -> << "%", "2", "F" >>
      [] ch = "=" -> << "%", "3", "D" >>
      [] ch = "?" -> << "%", "3", "F" >>

\* urllib.parse.quote_plus(s): quote(s, safe=' ') and then ' ' -> '+'
RECURSIVE quote_plus(_)
quote_plus(s) ==
    IF s = << >> THEN << >>
    ELSE (IF Head(s) \in ALWAYS_SAFE THEN << Head(s) >>
          ELSE IF Head(s) = " " THEN << "+" >>
          ELSE PercentHex(Head(s)))
         \o quote_plus(Tail(s))

\* urllib.parse.urlencode(query) for a dict: quote_plus(str(k)) '='
\* quote_plus(str(v)) for every item, joined by '&'
RECURSIVE urlencode(_)
urlencode(query) ==
    IF query = << >> THEN << >>
    ELSE LET item == quote_plus(Chars(query[1][1])) \o << "=" >>
                       \o quote_plus(query[1][2])
         IN  IF Len(query) = 1 THEN item
             ELSE item \o << "&" >> \o urlencode(Tail(query))

(***************************************************************************)
(* handle_call_tool: argument filtering and URL construction.              *)
(***************************************************************************)
\* a module-level request_data that calls in flight share: a new call starts
\* from what a call that has not left its branch yet has filtered
SharedRequestData ==
    LET inflight == { c \in Calls :
                        call[c].pc \in { "filtered", "awaiting", "exiting" } }
    IN  IF inflight = { } THEN << >>
        ELSE call[CHOOSE c \in inflight : TRUE].request_data

\* request_data = {}
EmptyRequestData == << >>

\* the loop without its "if key in condi_keys" test
RECURSIVE FilterLoopNoTest(_, _, _)
FilterLoopNoTest(items, keys, request_data) ==
    IF items = << >> THEN request_data
    ELSE FilterLoopNoTest(Tail(items), keys,
                          DictSet(request_data, Head(items)[1], Head(items)[2]))

\* for key in arguments.keys(): if key in condi_keys: request_data[key] = ...
RECURSIVE FilterLoop(_, _, _)
FilterLoop(items, keys, request_data) ==
    IF items = << >> THEN request_data
    ELSE FilterLoop(Tail(items), keys,
                    IF Head(items)[1] \in Range(keys)
                    THEN DictSet(request_data, Head(items)[1], Head(items)[2])
                    ELSE request_data)

\* the request_data a branch holds when it reaches its "async with"
FilterArguments(name, arguments) ==
    IF name = "listing-protocols" \/ arguments.none
    THEN EmptyRequestData
    ELSE FilterLoop(arguments.items, condi_keys(name), EmptyRequestData)

\* the f-string of a branch evaluates request_data[...] and so raises
\* KeyError when the key was not filtered in
RaisesKeyError(name, request_data) ==
    \/ name = "get-protocol-tvl" /\ ~HasKey(request_data, "protocol")
    \/ name = "get-apr" /\ ~HasKey(request_data, "liquidStakingId")

\* the URL string a branch passes to its make_*_request
BuildUrl(name, request_data) ==
    CASE name = "listing-coins" ->
           << "https://" \o API_BASE \o "/v1/cryptocurrency/listings/latest",
              "?" >> \o urlencode(request_data)
      [] name = "get-coin-info" ->
           << "https://" \o API_BASE \o "/v2/cryptocurrency/info", "?" >>
              \o urlencode(request_data)
      [] name = "get-coin-quotes" ->
           << "https://" \o API_BASE \o "/v2/cryptocurrency/quotes/latest",
              "?" >> \o urlencode(request_data)
      [] name = "listing-protocols" -> << "https://api.llama.fi/protocols" >>
      [] name = "get-protocol-tvl" ->
           << "https://api.llama.fi/tvl/" >> \o DictGet(request_data, "protocol")
      [] name = "get-apr" ->
           << "https://api.expand.network/liquidstaking/getapr", "?" >>
              \o Chars("liquidStakingId") \o << "=" >>
              \o DictGet(request_data, "liquidStakingId")

(***************************************************************************)
(* JSON values (what response.json() returns) and json.dumps.              *)
(* t is the Python type; n, s, elems, members hold the value of an int or  *)
(* bool, a str, a list and a dict.  Python's None is the value JNull: the  *)
(* body "null" parses to the very value make_*_request returns on failure. *)
(***************************************************************************)
Json(t, n, s, elems, members) ==
    [t |-> t, n |-> n, s |-> s, elems |-> elems, members |-> members]

JNull == Json("NoneType", 0, "", << >>, << >>)
JBool(b) == Json("bool", IF b THEN 1 ELSE 0, "", << >>, << >>)
JInt(n) == Json("int", n, "", << >>, << >>)
JStr(s) == Json("str", 0, s, << >>, << >>)
JList(elems) == Json("list", 0, "", elems, << >>)
JDict(members) == Json("dict", 0, "", << >>, members)

\* bool(value): the truth value "if not data" tests
Truthy(v) ==
    CASE v.t = "NoneType" -> FALSE
      [] v.t = "bool" -> v.n = 1
      [] v.t = "int" -> v.n # 0
      [] v.t = "str" -> v.s # ""
      [] v.t = "list" -> v.elems # << >>
      [] v.t = "dict" -> v.members # << >>

Digit(d) ==
    CASE d = 0 -> "0" [] d = 1 -> "1" [] d = 2 -> "2" [] d = 3 -> "3"
      [] d = 4 -> "4" [] d = 5 -> "5" [] d = 6 -> "6" [] d = 7 -> "7"
      [] d = 8 -> "8" [] d = 9 -> "9"

RECURSIVE IntRepr(_)
IntRepr(n) == IF n < 10 THEN Digit(n) ELSE IntRepr(n \div 10) \o Digit(n % 10)

\* json.dumps of a value without nested containers
DumpsScalar(v) ==
    CASE v.t = "NoneType" -> "null"
      [] v.t = "bool" -> (IF v.n = 1 THEN "true" ELSE "false")
      [] v.t = "int" -> IntRepr(v.n)
      [] v.t = "str" -> "\"" \o v.s \o "\""

RECURSIVE DumpsElems(_)
DumpsElems(elems) ==
    IF elems = << >> THEN ""
    ELSE DumpsScalar(Head(elems))
         \o (IF Len(elems) = 1 THEN "" ELSE ", " \o DumpsElems(Tail(elems)))

RECURSIVE DumpsMembers(_)
DumpsMembers(members) ==
    IF members = << >> THEN ""
    ELSE "\"" \o Head(members)[1] \o "\": " \o DumpsScalar(Head(members)[2])
         \o (IF Len(members) = 1 THEN ""
             ELSE ", " \o DumpsMembers(Tail(members)))

\* json.dumps(value) with the default separators
dumps(v) ==
    CASE v.t = "list" -> "[" \o DumpsElems(v.elems) \o "]"
      [] v.t = "dict" -> "{" \o DumpsMembers(v.members) \o "}"
      [] OTHER -> DumpsScalar(v)

(***************************************************************************)
(* The upstream and the three make_*_request clients.                      *)
(***************************************************************************)
\* what client.get runs into: no connection, no answer within timeout=10.0,
\* or a response with a status code and a body that parses as JSON or not
Response(outcome, status, parses, body) ==
    [outcome |-> outcome, status |-> status, parses |-> parses, body |-> body]

NoResponse == Response("none", 0, FALSE, JNull)

\* httpx.Response.is_success
is_success(status) == 200 <= status /\ status <= 299

\* the exception the try block raises, "" when it reaches its return
RaisedInTry(resp) ==
    CASE resp.outcome = "connect_error" -> "httpx.ConnectError"
      [] resp.outcome = "timeout" -> "httpx.ReadTimeout"
      [] resp.outcome = "response" /\ ~is_success(resp.status) ->
           "httpx.HTTPStatusError"
      [] resp.outcome = "response" /\ is_success(resp.status) /\ ~resp.parses ->
           "json.JSONDecodeError"
      [] OTHER -> ""

\* "except httpx.HTTPError": the body-parse failure is not one
CaughtByExceptHTTPError(exc) ==
    exc \in { "httpx.ConnectError", "httpx.ReadTimeout",
              "httpx.HTTPStatusError" }

\* "except Exception": the classes that derive from Exception
CaughtByExcept(exc) ==
    exc \in { "httpx.ConnectError", "httpx.ReadTimeout",
              "httpx.HTTPStatusError", "json.JSONDecodeError" }

\* try: get, raise_for_status, return response.json()
\* except Exception: return None
TryGetJson(resp) ==
    LET exc == RaisedInTry(resp)
    IN  IF exc = "" THEN [raised |-> "", value |-> resp.body]
        ELSE IF CaughtByExcept(exc) THEN [raised |-> "", value |-> JNull]
        ELSE [raised |-> exc, value |-> JNull]

make_coinmarketcap_request(resp) == TryGetJson(resp)

make_defillama_request(resp) == TryGetJson(resp)

make_expand_network_request(resp) == TryGetJson(resp)

\* the headers dict each make_*_request builds from the module globals
coinmarketcap_headers ==
    << <<"Accepts", "application/json">>, <<"X-CMC_PRO_API_KEY", API_KEY>> >>

defillama_headers == << <<"accept", "*/*">> >>

expand_network_headers ==
    << <<"accept", "*/*">>, <<"X-API-Key", DEFI_API_KEY>> >>

\* every branch awaiting make_coinmarketcap_request
RequestHeadersAllCoinMarketCap(name) == coinmarketcap_headers

\* the headers of the GET a branch sends, by the make_*_request it awaits
RequestHeaders(name) ==
    CASE name \in { "listing-coins", "get-coin-info", "get-coin-quotes" } ->
           coinmarketcap_headers
      [] name \in { "listing-protocols", "get-protocol-tvl" } ->
           defillama_headers
      [] name = "get-apr" -> expand_network_headers

\* one module-level client that every call uses
SharedClient(c) == CHOOSE id \in ClientIds : \A other \in ClientIds : id <= other

\* httpx.AsyncClient() in the activation of slot c: a new object, distinct
\* from the client of every other activation
NewClient(c) == CHOOSE id \in ClientIds : id = c

\* the client function each branch awaits
MakeRequest(name, resp) ==
    CASE name \in { "listing-coins", "get-coin-info", "get-coin-quotes" } ->
           make_coinmarketcap_request(resp)
      [] name \in { "listing-protocols", "get-protocol-tvl" } ->
           make_defillama_request(resp)
      [] name = "get-apr" -> make_expand_network_request(resp)

\* the text of the "if not <data>" return of each branch
FailureText(name) ==
    CASE name = "listing-coins" -> "Failed to retrieve listing data"
      [] name = "get-coin-info" -> "Failed to retrieve coin info data"
      [] name = "get-coin-quotes" -> "Failed to retrieve coin quotes data"
      [] name = "listing-protocols" -> "Failed to retrieve protocols data"
      [] name = "get-protocol-tvl" -> "Failed to retrieve protocols tvl data"
      [] name = "get-apr" -> "Failed to retrieve protocols APR data."

TextContent(text) == [type |-> "text", text |-> text]

\* a return value built from a module-level data variable, which another
\* call that has its answer and has not returned yet has overwritten
WrapResultOfSharedData(name, data) ==
    LET others == { c \in Calls : call[c].pc = "exiting"
                                    /\ call[c].response # NoResponse }
        shared == IF others = { } THEN data
                  ELSE call[CHOOSE c \in others : TRUE].data
    IN  IF ~Truthy(shared) THEN << TextContent(FailureText(name)) >>
        ELSE << TextContent(dumps(shared)) >>

\* the list a branch returns once its make_*_request has returned data
WrapResult(name, data) ==
    IF ~Truthy(data) THEN << TextContent(FailureText(name)) >>
    ELSE << TextContent(dumps(data)) >>

(***************************************************************************)
(* Inputs: the calls the transport delivers and the upstream's answers.    *)
(***************************************************************************)
\* arguments: dict | None
Arguments(none, items) == [none |-> none, items |-> items]

NoArguments == Arguments(TRUE, << >>)

\* tool names a caller may send: the dispatched ones, the listed one that
\* has no branch, and one that is neither listed nor dispatched
CallNames == DispatchedNames \cup { "get-protocols", "foo" }

\* "aux" is in the condi_keys of the three market-data tools
ArgKeys == { "aux", "protocol", "liquidStakingId", "bogus" }

ArgValues ==
    { << "a", "a", "v", "e" >>,
      << "a", " ", "b", "&", "c", "=", "d", "/", "#", "%", "+", "?" >> }

\* every dict of at most n items over ArgKeys and ArgValues, in every
\* insertion order
DictsUpTo(n) ==
    UNION { { d \in [1..m -> ArgKeys \X ArgValues] :
                \A i, j \in 1..m : i # j => d[i][1] # d[j][1] } : m \in 0..n }

AllArguments ==
    { NoArguments } \cup { Arguments(FALSE, d) : d \in DictsUpTo(MaxArgs) }

JsonBodies ==
    { JNull, JBool(FALSE), JInt(0), JInt(42), JStr(""), JList(<< >>),
      JList(<< JBool(TRUE), JNull >>), JDict(<< >>),
      JDict(<< <<"data", JInt(1)>>, <<"status", JStr("ok")>> >>) }

Responses ==
    { Response("connect_error", 0, FALSE, JNull),
      Response("timeout", 0, FALSE, JNull),
      Response("response", 302, FALSE, JNull),
      Response("response", 404, TRUE, JDict(<< <<"status", JStr("error")>> >>)),
      Response("response", 500, TRUE, JDict(<< <<"status", JStr("error")>> >>)),
      Response("response", 200, FALSE, JNull),
      Response("response", 201, TRUE, JDict(<< <<"data", JInt(1)>> >>)) }
    \cup { Response("response", 200, TRUE, body) : body \in JsonBodies }

\* the calls and answers of the concurrent specification
ConcurrentCalls ==
    { << "get-coin-quotes",
         Arguments(FALSE, << <<"symbol", <<"a", "a", "v", "e">> >>,
                             <<"convert", <<"a", " ", "b">> >> >>) >>,
      << "get-coin-quotes",
         Arguments(FALSE, << <<"convert", <<"a", " ", "b">> >>,
                             <<"symbol", <<"a", "a", "v", "e">> >> >>) >>,
      << "get-protocol-tvl",
         Arguments(FALSE, << <<"protocol", <<"a", "a", "v", "e">> >>,
                             <<"bogus", <<"a", "&", "b">> >> >>) >>,
      << "get-apr", Arguments(FALSE, << <<"liquidStakingId", <<"1">> >> >>) >>,
      << "get-apr", NoArguments >>,
      << "foo", NoArguments >> }

ConcurrentResponses ==
    { Response("timeout", 0, FALSE, JNull),
      Response("response", 500, TRUE, JDict(<< <<"status", JStr("error")>> >>)),
      Response("response", 200, TRUE, JDict(<< <<"data", JInt(1)>> >>)) }

(***************************************************************************)
(* State.                                                                  *)
(***************************************************************************)
NoError == [type |-> "", msg |-> ""]

\* a call slot of the transport with no handler running
IdleCall ==
    [pc |-> "idle", name |-> "", arguments |-> NoArguments,
     request_data |-> << >>, client |-> "none", client_id |-> 0,
     url |-> << >>, headers |-> << >>, gets |-> 0,
     response |-> NoResponse, data |-> JNull, result |-> << >>,
     error |-> NoError]

Init ==
    /\ API_KEY = None
    /\ DEFI_API_KEY = None
    /\ pcMain = "start"
    /\ call = [c \in Calls |-> IdleCall]
    /\ listed = << >>
    /\ open_clients = { }

(***************************************************************************)
(* Operations.                                                             *)
(***************************************************************************)
\* main without its "global" statements: the assignments make locals
mainWithoutGlobal(api_key, defi_api_key) ==
    /\ pcMain = "start"
    /\ pcMain' = "serving"
    /\ UNCHANGED <<API_KEY, DEFI_API_KEY, call, listed, open_clients>>

\* main: store the two keys, then run the server
main(api_key, defi_api_key) ==
    /\ pcMain = "start"
    /\ API_KEY' = api_key
    /\ DEFI_API_KEY' = defi_api_key
    /\ pcMain' = "serving"
    /\ UNCHANGED <<call, listed, open_clients>>

\* the "__main__" block: asyncio.run(main(api_key)) calls main with one
\* argument, which raises TypeError before main's body runs
run_as_script ==
    /\ pcMain = "start"
    /\ pcMain' = "crashed"
    /\ UNCHANGED <<API_KEY, DEFI_API_KEY, call, listed, open_clients>>

\* handle_list_tools: return the list of types.Tool
handle_list_tools ==
    /\ pcMain = "serving"
    /\ listed' = ListedToolNames
    /\ UNCHANGED <<API_KEY, DEFI_API_KEY, pcMain, call, open_clients>>

\* handle_call_tool up to its "async with": pick the branch by name and
\* filter the arguments, or raise ValueError in the else branch
CallTool(c, name, arguments) ==
    /\ pcMain = "serving"
    /\ call[c].pc = "idle"
    /\ call' = [call EXCEPT ![c] =
         IF name \in DispatchedNames
         THEN [IdleCall EXCEPT !.pc = "filtered", !.name = name,
                 !.arguments = arguments,
                 !.request_data = FilterArguments(name, arguments)]
         ELSE [IdleCall EXCEPT !.pc = "raised", !.name = name,
                 !.arguments = arguments,
                 !.error = [type |-> "ValueError",
                            msg |-> "Unknown tool: " \o name]]]
    /\ UNCHANGED <<API_KEY, DEFI_API_KEY, pcMain, listed, open_clients>>

\* "async with httpx.AsyncClient() as client", the URL f-string and the
\* start of the awaited make_*_request (client.get is sent)
EnterClient(c) ==
    /\ call[c].pc = "filtered"
    /\ call' = [call EXCEPT ![c] =
         IF RaisesKeyError(call[c].name, call[c].request_data)
         THEN [@ EXCEPT !.pc = "exiting", !.client = "open",
                 !.client_id = NewClient(c),
                 !.error = [type |-> "KeyError",
                            msg |-> IF call[c].name = "get-apr"
                                    THEN "'liquidStakingId'"
                                    ELSE "'protocol'"]]
         ELSE [@ EXCEPT !.pc = "awaiting", !.client = "open",
                 !.client_id = NewClient(c),
                 !.url = BuildUrl(call[c].name, call[c].request_data),
                 !.headers = RequestHeaders(call[c].name),
                 !.gets = @ + 1]]
    /\ open_clients' = open_clients \cup { NewClient(c) }
    /\ UNCHANGED <<API_KEY, DEFI_API_KEY, pcMain, listed>>

\* a handler that sends its GET once more when the first answer is no data
UpstreamRespondsRetry(c, resp) ==
    /\ call[c].pc = "awaiting"
    /\ LET r == MakeRequest(call[c].name, resp)
       IN  call' = [call EXCEPT ![c] =
             IF r.raised = "" /\ r.value = JNull /\ call[c].gets < 2
             THEN [@ EXCEPT !.gets = @ + 1]
             ELSE [@ EXCEPT !.pc = "exiting", !.response = resp,
                     !.data = r.value,
                     !.result = WrapResult(call[c].name, r.value)]]
    /\ UNCHANGED <<API_KEY, DEFI_API_KEY, pcMain, listed, open_clients>>

\* the awaited make_*_request returns and the branch builds its return value
UpstreamResponds(c, resp) ==
    /\ call[c].pc = "awaiting"
    /\ LET r == MakeRequest(call[c].name, resp)
       IN  call' = [call EXCEPT ![c] =
             IF r.raised # ""
             THEN [@ EXCEPT !.pc = "exiting", !.response = resp,
                     !.error = [type |-> r.raised, msg |-> ""]]
             ELSE [@ EXCEPT !.pc = "exiting", !.response = resp,
                     !.data = r.value,
                     !.result = WrapResult(call[c].name, r.value)]]
    /\ UNCHANGED <<API_KEY, DEFI_API_KEY, pcMain, listed, open_clients>>

\* leaving the "async with": the client is closed and the handler returns
\* its list or lets the exception propagate
ExitClient(c) ==
    /\ call[c].pc = "exiting"
    /\ call' = [call EXCEPT ![c] =
         [@ EXCEPT !.pc = IF call[c].error = NoError THEN "returned"
                                     ELSE "raised",
                   !.client = "closed"]]
    /\ open_clients' = open_clients \ { call[c].client_id }
    /\ UNCHANGED <<API_KEY, DEFI_API_KEY, pcMain, listed>>

\* the transport has sent the reply; the slot is free for the next call
Reply(c) ==
    /\ call[c].pc \in { "returned", "raised" }
    /\ call' = [call EXCEPT ![c] = IdleCall]
    /\ UNCHANGED <<API_KEY, DEFI_API_KEY, pcMain, listed, open_clients>>

(***************************************************************************)
(* Specifications.                                                         *)
(***************************************************************************)
\* the key strings the entry point may pass to main
ApiKeys == { "cmc-key-1", "cmc-key-2" }

DefiApiKeys == { "expand-key-1", "expand-key-2" }

\* concurrent serving: MaxCalls handlers interleave at their awaits
Next ==
    \/ \E api_key \in ApiKeys : \E defi_api_key \in DefiApiKeys :
         main(api_key, defi_api_key)
    \/ run_as_script
    \/ handle_list_tools
    \/ \E c \in Calls : \E in \in ConcurrentCalls : CallTool(c, in[1], in[2])
    \/ \E c \in Calls : EnterClient(c)
    \/ \E c \in Calls : \E resp \in ConcurrentResponses : UpstreamResponds(c, resp)
    \/ \E c \in Calls : ExitClient(c)
    \/ \E c \in Calls : Reply(c)

Spec == Init /\ [][Next]_vars

\* one call at a time, over every name, arguments mapping and answer
NextSeq ==
    \/ main("cmc-key-1", "expand-key-1")
    \/ run_as_script
    \/ handle_list_tools
    \/ \E name \in CallNames : \E arguments \in AllArguments :
         CallTool(1, name, arguments)
    \/ EnterClient(1)
    \/ \E resp \in Responses : UpstreamResponds(1, resp)
    \/ ExitClient(1)
    \/ Reply(1)

SpecSeq == Init /\ [][NextSeq]_vars

(***************************************************************************)
(* Properties.                                                             *)
(***************************************************************************)
\* the six tools the documentation of handle_call_tool names
RegisteredTools ==
    { "listing-coins", "get-coin-info", "get-coin-quotes",
      "listing-protocols", "get-protocol-tvl", "get-apr" }

Started(c) == call[c].pc # "idle"

\* the handler of call c has finished, by return or by exception
Finished(c) == call[c].pc \in { "returned", "raised" }

\* c is at or past the point where its branch has its upstream answer
Answered(c) == call[c].response # NoResponse

\* the single content item whose text is the failure message of a tool
IsDataFailure(result) ==
    \E name \in RegisteredTools : result = << TextContent(FailureText(name)) >>

\* C1: a call whose name is none of the dispatched tool names fails with
\* ValueError "Unknown tool", whatever its arguments: it returns no content
\* item, opens no HTTP client and sends no upstream request, and its outcome
\* is not a data-failure content item
C1_UnknownToolRaises ==
    \A c \in Calls :
        Started(c) /\ call[c].name \notin RegisteredTools =>
            /\ call[c].pc = "raised"
            /\ call[c].error = [type |-> "ValueError",
                                msg |-> "Unknown tool: " \o call[c].name]
            /\ call[c].result = << >>
            /\ call[c].client = "none"
            /\ call[c].gets = 0
            /\ call[c].url = << >>
            /\ ~IsDataFailure(call[c].result)

C1_Witness ==
    \E c \in Calls :
        /\ call[c].pc = "raised"
        /\ call[c].name = "foo"
        /\ ~call[c].arguments.none
        /\ Len(call[c].arguments.items) = MaxArgs

\* C2: a call to a registered tool never raises, whatever its arguments
\* (none, empty, or lacking the tool's key): it returns exactly one text
\* content item
C2_RegisteredToolNeverRaises ==
    \A c \in Calls :
        Finished(c) /\ call[c].name \in RegisteredTools =>
            /\ call[c].pc = "returned"
            /\ call[c].error = NoError
            /\ Len(call[c].result) = 1
            /\ call[c].result[1].type = "text"

\* the upstream answer is one of the failures: a non-2xx status, a network
\* failure, a timeout or a body that does not parse
IsUpstreamFailure(resp) ==
    \/ resp.outcome \in { "connect_error", "timeout" }
    \/ resp.outcome = "response" /\ (resp.status < 200 \/ resp.status > 299)
    \/ resp.outcome = "response" /\ ~resp.parses

\* C3: for every registered tool, each kind of upstream failure becomes the
\* "no data" value with no exception escaping, and the call returns the one
\* failure content item of its tool, the same for every kind of failure
C3_UpstreamFailureUniform ==
    \A c \in Calls :
        Answered(c) /\ IsUpstreamFailure(call[c].response) =>
            /\ call[c].error = NoError
            /\ call[c].data = JNull
            /\ call[c].result = << TextContent(FailureText(call[c].name)) >>
            /\ call[c].pc \in { "exiting", "returned" }

C3_Witness ==
    \E c \in Calls :
        /\ call[c].pc = "returned"
        /\ call[c].name = "get-coin-info"
        /\ call[c].response.outcome = "response"
        /\ call[c].response.status = 200
        /\ ~call[c].response.parses

\* C4: when the upstream GET succeeds (2xx and a body that parses), whatever
\* JSON value the body is, the call returns exactly one content item whose
\* text is the JSON serialization of that value, never the failure message
C4_SuccessReturnsPayload ==
    \A c \in Calls :
        /\ Answered(c)
        /\ call[c].response.outcome = "response"
        /\ is_success(call[c].response.status)
        /\ call[c].response.parses
        => /\ call[c].result = << TextContent(dumps(call[c].response.body)) >>
           /\ ~IsDataFailure(call[c].result)

\* the items of an arguments mapping whose key is in keys, in their order
RECURSIVE Project(_, _)
Project(items, keys) ==
    IF items = << >> THEN << >>
    ELSE (IF Head(items)[1] \in keys THEN << Head(items) >> ELSE << >>)
         \o Project(Tail(items), keys)

\* the arguments of call c without the keys outside its tool's whitelist
WhitelistedArguments(c) ==
    IF call[c].arguments.none THEN NoArguments
    ELSE Arguments(FALSE, Project(call[c].arguments.items,
                                  Range(condi_keys(call[c].name))))

\* C5: for every call to a registered tool, the filtered request data holds
\* only whitelisted keys with the values supplied for them, and the URL and
\* the outcome of URL construction are those of the same call without the
\* keys outside the whitelist: such keys are dropped without an error
C5_OnlyWhitelistedKeysReachUrl ==
    \A c \in Calls :
        Started(c) /\ call[c].name \in RegisteredTools =>
            LET projected == FilterArguments(call[c].name, WhitelistedArguments(c))
            IN  /\ \A i \in DOMAIN call[c].request_data :
                     /\ call[c].request_data[i][1] \in Range(condi_keys(call[c].name))
                     /\ call[c].request_data[i] \in Range(call[c].arguments.items)
                /\ call[c].request_data = projected
                /\ call[c].pc # "filtered" =>
                     IF RaisesKeyError(call[c].name, projected)
                     THEN call[c].url = << >> /\ call[c].error.type = "KeyError"
                     ELSE /\ call[c].url = BuildUrl(call[c].name, projected)
                          /\ call[c].error.type # "KeyError"

C5_Witness ==
    \E c \in Calls :
        /\ call[c].name = "get-coin-quotes"
        /\ call[c].pc = "returned"
        /\ HasKey(call[c].arguments.items, "bogus")
        /\ HasKey(call[c].arguments.items, "aux")
        /\ HasKey(call[c].request_data, "aux")

\* the URL of call c has been built and passed to the upstream client
UrlBuilt(c) == call[c].gets > 0

\* C6 as amended: two calls with the same tool name and the same arguments
\* mapping, keys in the same order, pass the same URL string to the upstream
\* client, whatever calls ran before them or run beside them
C6_SameOrderedArgumentsSameUrl ==
    \A c1, c2 \in Calls :
        /\ UrlBuilt(c1) /\ UrlBuilt(c2)
        /\ call[c1].name = call[c2].name
        /\ call[c1].arguments = call[c2].arguments
        => call[c1].url = call[c2].url

C6_Witness ==
    \E c1, c2 \in Calls :
        /\ c1 # c2
        /\ UrlBuilt(c1) /\ UrlBuilt(c2)
        /\ call[c1].pc = "awaiting" /\ call[c2].pc = "returned"
        /\ call[c1].name = "get-coin-quotes" /\ call[c2].name = "get-coin-quotes"
        /\ call[c1].arguments = call[c2].arguments
        /\ Len(call[c1].request_data) = 2

\* C6: two calls with the same tool name and the same set of key-to-value
\* pairs as arguments pass the same URL string to the upstream client
C6_SamePairsSameUrl ==
    \A c1, c2 \in Calls :
        /\ UrlBuilt(c1) /\ UrlBuilt(c2)
        /\ call[c1].name = call[c2].name
        /\ call[c1].arguments.none = call[c2].arguments.none
        /\ Range(call[c1].arguments.items) = Range(call[c2].arguments.items)
        => call[c1].url = call[c2].url

\* the subject of each tool's failure message
Subject(name) ==
    CASE name = "listing-coins" -> "listing"
      [] name = "get-coin-info" -> "coin info"
      [] name = "get-coin-quotes" -> "coin quotes"
      [] name = "listing-protocols" -> "protocols"
      [] name = "get-protocol-tvl" -> "protocols tvl"
      [] name = "get-apr" -> "protocols APR"

\* C7: when the upstream result is the "no data" value, the text of the
\* returned content item is exactly "Failed to retrieve <subject> data"
C7_FailureTextForm ==
    \A c \in Calls :
        /\ Answered(c)
        /\ call[c].name \in RegisteredTools
        /\ call[c].data = JNull
        => call[c].result =
             << TextContent("Failed to retrieve " \o Subject(call[c].name)
                            \o " data") >>

\* the key the published schema of a tool requires, "" when it requires none
RequiredKey(name) ==
    CASE name = "get-protocol-tvl" -> "protocol"
      [] name = "get-apr" -> "liquidStakingId"
      [] OTHER -> ""

\* C8: a call to get-protocol-tvl without "protocol" or to get-apr without
\* "liquidStakingId" still has its URL built and still sends its upstream GET
C8_MissingRequiredKeyForwarded ==
    \A c \in Calls :
        /\ call[c].name \in { "get-protocol-tvl", "get-apr" }
        /\ ~HasKey(call[c].arguments.items, RequiredKey(call[c].name))
        /\ call[c].pc \notin { "idle", "filtered" }
        => /\ call[c].url # << >>
           /\ call[c].gets = 1
           /\ call[c].error = NoError

\* C9: the names handle_list_tools returns are the names handle_call_tool
\* accepts: a call with a listed name never fails with "Unknown tool", and a
\* call with a name that is not listed does
C9_ListedIffDispatched ==
    \A c \in Calls :
        listed # << >> /\ Started(c) =>
            (call[c].name \in Range(listed) <=> call[c].error.type # "ValueError")

\* the part of a URL between its first "?" and its first "#"
RECURSIVE UpTo(_, _)
UpTo(s, ch) ==
    IF s = << >> \/ Head(s) = ch THEN << >> ELSE << Head(s) >> \o UpTo(Tail(s), ch)

RECURSIVE After(_, _)
After(s, ch) ==
    IF s = << >> THEN << >>
    ELSE IF Head(s) = ch THEN Tail(s) ELSE After(Tail(s), ch)

QueryOf(url) == UpTo(After(url, "?"), "#")

\* the pieces of s between the occurrences of ch
RECURSIVE Split(_, _)
Split(s, ch) ==
    IF \E i \in DOMAIN s : s[i] = ch
    THEN << UpTo(s, ch) >> \o Split(After(s, ch), ch)
    ELSE << s >>

Escapes == { " ", "#", "%", "&", "+", "/", "=", "?" }

\* '+' to ' ' and every %XX escape to its character
RECURSIVE unquote_plus(_)
unquote_plus(s) ==
    IF s = << >> THEN << >>
    ELSE IF Head(s) = "+" THEN << " " >> \o unquote_plus(Tail(s))
    ELSE IF /\ Head(s) = "%"
            /\ Len(s) >= 3
            /\ \E ch \in Escapes : PercentHex(ch) = SubSeq(s, 1, 3)
         THEN << CHOOSE ch \in Escapes : PercentHex(ch) = SubSeq(s, 1, 3) >>
              \o unquote_plus(SubSeq(s, 4, Len(s)))
    ELSE << Head(s) >> \o unquote_plus(Tail(s))

\* the key-value pairs a query string decodes to
RECURSIVE DecodePieces(_)
DecodePieces(pieces) ==
    IF pieces = << >> THEN << >>
    ELSE (IF Head(pieces) = << >> THEN << >>
          ELSE << << unquote_plus(UpTo(Head(pieces), "=")),
                     unquote_plus(After(Head(pieces), "=")) >> >>)
         \o DecodePieces(Tail(pieces))

parse_qsl(qs) == DecodePieces(Split(qs, "&"))

\* the pairs of a request_data with the key as characters
AsCharPairs(request_data) ==
    [i \in DOMAIN request_data |->
        << Chars(request_data[i][1]), request_data[i][2] >>]

\* C10: in the URL of each of the four tools that build a query string,
\* every argument value is percent-encoded: decoding the query gives back
\* exactly the filtered key-value pairs and no other parameter
C10_QueryRoundTrip ==
    \A c \in Calls :
        /\ UrlBuilt(c)
        /\ call[c].name \in { "listing-coins", "get-coin-info",
                              "get-coin-quotes", "get-apr" }
        => parse_qsl(QueryOf(call[c].url)) = AsCharPairs(call[c].request_data)

\* call c holds an HTTP client that has not been closed
ClientOpen(c) == call[c].client = "open"

\* C11: each call to a registered tool acquires its own HTTP client, which
\* is closed on every way out of the call (success content, failure content,
\* exception inside the client scope); no client is held by two calls, and
\* when no call is running no client is open
C11_ClientScopedToCall ==
    /\ \A c \in Calls :
         /\ call[c].pc \in { "awaiting", "exiting" } =>
              ClientOpen(c) /\ call[c].client_id \in open_clients
         /\ Finished(c) /\ call[c].name \in RegisteredTools =>
              call[c].client = "closed"
         /\ call[c].pc \in { "idle", "filtered", "returned", "raised" } =>
              ~ClientOpen(c)
    /\ \A c1, c2 \in Calls :
         c1 # c2 /\ ClientOpen(c1) /\ ClientOpen(c2) =>
             call[c1].client_id # call[c2].client_id
    /\ open_clients = { call[c].client_id : c \in { x \in Calls : ClientOpen(x) } }
    /\ (\A c \in Calls : call[c].pc \in { "idle", "returned", "raised" }) =>
           open_clients = { }

C11_Witness ==
    \E c1, c2 \in Calls :
        /\ call[c1].pc = "raised" /\ call[c1].error.type = "KeyError"
        /\ call[c1].client = "closed"
        /\ call[c2].pc = "awaiting" /\ ClientOpen(c2)
        /\ open_clients = { call[c2].client_id }

\* C12: a call sends at most one upstream GET, and once that GET has come
\* back as "no data" the call goes on to return its failure content item
\* without a second request
C12_NoRetry ==
    \A c \in Calls :
        /\ call[c].gets <= 1
        /\ Answered(c) => call[c].gets = 1
        /\ call[c].pc = "awaiting" => ~Answered(c)
        /\ Answered(c) /\ call[c].data = JNull =>
             /\ call[c].pc \in { "exiting", "returned" }
             /\ call[c].result = << TextContent(FailureText(call[c].name)) >>

C12_Witness ==
    \E c \in Calls :
        /\ call[c].pc = "returned"
        /\ call[c].response.outcome = "timeout"
        /\ call[c].data = JNull
        /\ call[c].gets = 1

\* the request data of call c as its own arguments determine it
OwnRequestData(c) ==
    IF call[c].name = "listing-protocols" \/ call[c].arguments.none THEN << >>
    ELSE Project(call[c].arguments.items, Range(condi_keys(call[c].name)))

\* the content a tool returns for an upstream answer
ExpectedResult(name, resp) ==
    IF IsUpstreamFailure(resp) \/ ~Truthy(resp.body)
    THEN << TextContent(FailureText(name)) >>
    ELSE << TextContent(dumps(resp.body)) >>

\* C13: under every interleaving of concurrently served calls, the URL a
\* call requests and the content it returns depend only on its own tool
\* name, arguments and upstream answer: nothing another call filtered is in
\* its request data or URL, and its content is that of its own answer
C13_CallsIsolated ==
    \A c \in Calls :
        Started(c) /\ call[c].name \in RegisteredTools =>
            /\ call[c].request_data = OwnRequestData(c)
            /\ UrlBuilt(c) =>
                 call[c].url = BuildUrl(call[c].name, OwnRequestData(c))
            /\ Answered(c) =>
                 /\ call[c].error = NoError
                 /\ call[c].result = ExpectedResult(call[c].name, call[c].response)

C13_Witness ==
    \E c1, c2 \in Calls :
        /\ call[c1].name = "get-coin-quotes" /\ call[c1].pc = "exiting"
        /\ call[c1].response.outcome = "timeout"
        /\ call[c2].name = "get-apr" /\ call[c2].pc = "exiting"
        /\ call[c2].response.status = 200
        /\ call[c1].url # call[c2].url
        /\ call[c1].result # call[c2].result

\* the value of a header, None when the header is not sent
HeaderValue(headers, h) ==
    IF HasKey(headers, h) THEN DictGet(headers, h) ELSE None

\* the keys are set and every request sent so far carries their values
KeysServed ==
    /\ pcMain = "serving" => API_KEY # None /\ DEFI_API_KEY # None
    /\ \A c \in Calls :
         /\ Started(c) => pcMain = "serving"
         /\ UrlBuilt(c) /\ HasKey(call[c].headers, "X-CMC_PRO_API_KEY") =>
              DictGet(call[c].headers, "X-CMC_PRO_API_KEY") = API_KEY
         /\ UrlBuilt(c) /\ HasKey(call[c].headers, "X-API-Key") =>
              DictGet(call[c].headers, "X-API-Key") = DEFI_API_KEY

\* C14: API_KEY and DEFI_API_KEY are each written once, by main, before any
\* call is served; no handler, client or listing writes them, so every
\* upstream request carries the values set at startup
C14_KeysWrittenOnceAtStartup ==
    [][ /\ KeysServed'
        /\ (API_KEY' # API_KEY \/ DEFI_API_KEY' # DEFI_API_KEY) =>
             /\ pcMain = "start" /\ pcMain' = "serving"
             /\ API_KEY = None /\ DEFI_API_KEY = None
             /\ API_KEY' # None /\ DEFI_API_KEY' # None
             /\ \A c \in Calls : call[c].pc = "idle" /\ call'[c].pc = "idle"
      ]_vars

C14_Witness ==
    \E c1, c2 \in Calls :
        /\ API_KEY = "cmc-key-2" /\ DEFI_API_KEY = "expand-key-2"
        /\ call[c1].pc = "returned" /\ call[c1].name = "get-coin-quotes"
        /\ HeaderValue(call[c1].headers, "X-CMC_PRO_API_KEY") = "cmc-key-2"
        /\ call[c2].pc = "awaiting" /\ call[c2].name = "get-apr"
        /\ HeaderValue(call[c2].headers, "X-API-Key") = "expand-key-2"

UpstreamHosts ==
    { "pro-api.coinmarketcap.com", "api.llama.fi", "api.expand.network" }

UpstreamPaths ==
    { "/v1/cryptocurrency/listings/latest", "/v2/cryptocurrency/info",
      "/v2/cryptocurrency/quotes/latest", "/protocols", "/tvl/",
      "/liquidstaking/getapr" }

\* the host of a URL, "" when it is none of the three upstreams
UrlHost(url) ==
    LET hosts == { h \in UpstreamHosts :
                     \E path \in UpstreamPaths : url[1] = "https://" \o h \o path }
    IN  IF hosts = { } THEN "" ELSE CHOOSE h \in hosts : TRUE

\* the values of all headers of a request
HeaderValues(headers) == { headers[i][2] : i \in DOMAIN headers }

\* C15: every request of listing-coins, get-coin-info and get-coin-quotes
\* goes to the market-data host with X-CMC_PRO_API_KEY holding the
\* market-data key; every request of get-apr goes to the staking-yield host
\* with X-API-Key holding the staking key; requests of listing-protocols and
\* get-protocol-tvl carry no key; neither key is sent to another upstream
C15_CredentialsConfined ==
    \A c \in Calls :
        UrlBuilt(c) =>
            CASE call[c].name \in { "listing-coins", "get-coin-info",
                                    "get-coin-quotes" } ->
                   /\ UrlHost(call[c].url) = "pro-api.coinmarketcap.com"
                   /\ HeaderValue(call[c].headers, "X-CMC_PRO_API_KEY") = API_KEY
                   /\ API_KEY # None
                   /\ ~HasKey(call[c].headers, "X-API-Key")
                   /\ DEFI_API_KEY \notin HeaderValues(call[c].headers)
              [] call[c].name = "get-apr" ->
                   /\ UrlHost(call[c].url) = "api.expand.network"
                   /\ HeaderValue(call[c].headers, "X-API-Key") = DEFI_API_KEY
                   /\ DEFI_API_KEY # None
                   /\ ~HasKey(call[c].headers, "X-CMC_PRO_API_KEY")
                   /\ API_KEY \notin HeaderValues(call[c].headers)
              [] OTHER ->
                   /\ UrlHost(call[c].url) = "api.llama.fi"
                   /\ ~HasKey(call[c].headers, "X-CMC_PRO_API_KEY")
                   /\ ~HasKey(call[c].headers, "X-API-Key")
                   /\ API_KEY \notin HeaderValues(call[c].headers)
                   /\ DEFI_API_KEY \notin HeaderValues(call[c].headers)

C15_Witness ==
    \E c \in Calls :
        /\ call[c].name = "get-apr"
        /\ call[c].pc = "returned"
        /\ HeaderValue(call[c].headers, "X-API-Key") = "expand-key-1"
        /\ HasKey(call[c].arguments.items, "protocol")

====
